---- MODULE Spec2Model ----
(***************************************************************************)
(* A model of the Apple Mail automation bridge (mcp-apple):                *)
(*   - runJXA, the bridge executor            (src/lib/jxa-executor.ts)    *)
(*   - markAsRead / deleteEmails / moveEmails (src/lib/mail-operations.ts) *)
(*   - searchMails / searchInbox / searchInMailbox (src/lib/mail-search.ts)*)
(*   - getMailboxHierarchy                    (src/lib/mail-accounts.ts)   *)
(*   - getLatestMails                         (mail-messages.ts)           *)
(*   - escapeJXAString and sendMail           (jxa-executor.ts,            *)
(*                                             mail-operations.ts)         *)
(* Each component has its own specification over the shared variables:     *)
(* SpecBridge, SpecBulk, SpecSearch, SpecLatest, SpecHierarchy, SpecUnread,*)
(* SpecEscape, SpecSend.                                                   *)
(***************************************************************************)
EXTENDS Integers, Sequences, FiniteSets, TLC

VARIABLES
  now,        \* bridge: the wall clock in milliseconds (Date.now())
  fs,         \* bridge: the files under /tmp/mail-jxa-<ms>.js, by <ms>
  pc,         \* bridge: where each runJXA call stands
  tempFile,   \* bridge: the path each call computed
  program,    \* bridge: the code each call was given
  loaded,     \* bridge: what the host process of each call read from its path
  result,     \* bridge: what each call gave its caller
  spawns,     \* bridge: how many host processes each call started
  exec,       \* bridge: how the host process of each call ended and what it printed
  mail,       \* the mail application's messages, per mailbox
  bulk,       \* the running markAsRead / deleteEmails / moveEmails script
  search,     \* the last search call and what it returned
  listing,    \* the flat mailbox listing of the account given to getMailboxHierarchy
  hierarchy,  \* what getMailboxHierarchy returned
  literal,    \* a string parameter, its escaped text and what the host reads it as
  outgoing    \* sendMail: the call, the mail application's outgoing messages, the result

vars == <<now, fs, pc, tempFile, program, loaded, result, spawns, exec,
          mail, bulk, search, listing, hierarchy, literal, outgoing>>

bridgeVars == <<now, fs, pc, tempFile, program, loaded, result, spawns, exec>>
mailVars == <<mail, bulk, search, listing, hierarchy>>
otherVars == <<literal, outgoing>>

----------------------------------------------------------------------------
(* Bounds of the model *)

MaxClock == 1       \* milliseconds the clock may advance
MaxMsgs == 2        \* messages in the whole mail store
MaxIds == 2         \* length of a messageIds argument
MaxLimit == 2       \* the limit argument of a search
MaxMailboxes == 3   \* mailboxes in the listing of one account
MaxStrLen == 3      \* length of a string parameter

----------------------------------------------------------------------------
(* Generic helpers *)

\* Array.prototype.includes
Includes(s, x) == \E i \in 1..Len(s) : s[i] = x

\* Array.prototype.indexOf, 1-based; 0 when absent
IndexOf(s, x) ==
  IF Includes(s, x) THEN CHOOSE i \in 1..Len(s) : s[i] = x /\ \A h \in 1..(i-1) : s[h] # x
  ELSE 0

\* Array.prototype.splice(idx, 1)
Splice(s, idx) == [h \in 1..(Len(s) - 1) |-> IF h < idx THEN s[h] ELSE s[h + 1]]

\* all sequences over S of length lo..hi
SeqsOf(S, lo, hi) == UNION {[1..n -> S] : n \in lo..hi}

Min(a, b) == IF a < b THEN a ELSE b
Max(a, b) == IF a > b THEN a ELSE b

\* Characters in the order of their UTF-16 code units
CharOrder ==
  << "\t", "\n", " ", "\"", ".", "/", "2", "@",
     "A", "B", "C", "D", "E", "F", "G", "H", "I", "J", "K", "L", "M",
     "N", "O", "P", "Q", "R", "S", "T", "U", "V", "W", "X", "Y", "Z",
     "\\", "<backtick>",
     "a", "b", "c", "d", "e", "f", "g", "h", "i", "j", "k", "l", "m",
     "n", "o", "p", "q", "r", "s", "t", "u", "v", "w", "x", "y", "z" >>

CharCode(c) == CHOOSE i \in DOMAIN CharOrder : CharOrder[i] = c

IsUpper(c) == CharCode(c) \in CharCode("A")..CharCode("Z")
IsLower(c) == CharCode(c) \in CharCode("a")..CharCode("z")

\* String.prototype.toLowerCase / toUpperCase
ToLowerCase(s) ==
  [i \in 1..Len(s) |->
     IF IsUpper(s[i]) THEN CharOrder[CharCode(s[i]) + (CharCode("a") - CharCode("A"))]
     ELSE s[i]]
ToUpperCase(s) ==
  [i \in 1..Len(s) |->
     IF IsLower(s[i]) THEN CharOrder[CharCode(s[i]) - (CharCode("a") - CharCode("A"))]
     ELSE s[i]]

\* String.prototype.includes
StrIncludes(s, t) ==
  \E i \in 0..(Len(s) - Len(t)) : \A h \in 1..Len(t) : s[i + h] = t[h]

\* s < t as JavaScript compares strings: by code units, a proper prefix first
StrLess(s, t) ==
  \E i \in 1..(Min(Len(s), Len(t)) + 1) :
    /\ \A h \in 1..(i - 1) : s[h] = t[h]
    /\ \/ i = Len(s) + 1 /\ i <= Len(t)
       \/ i <= Len(s) /\ i <= Len(t) /\ CharCode(s[i]) < CharCode(t[i])

----------------------------------------------------------------------------
(* The bridge executor: runJXA *)

\* two runJXA calls, which may overlap
Calls == {1, 2}
Paths == 0..MaxClock

NoFile == [owner |-> 0, prog |-> "none"]

\* What the code handed to runJXA does when the host evaluates it.
Programs == {"return_number", "return_undefined", "return_error_object",
             "throw_boom", "throw_empty"}

\* The JSON payloads a host can print.  error/message are the fields runJXA reads.
Payload(kind, err, msg) == [kind |-> kind, error |-> err, message |-> msg]

NoPayload == Payload("none", FALSE, "")

\* The harness of the wrapped code: run() returns JSON.stringify(result), or the
\* error sentinel when the code threw.  JSON.stringify(undefined) is undefined,
\* and osascript then prints nothing.
HarnessOutput(p) ==
  CASE p = "return_number"       -> Payload("number", FALSE, "")
    [] p = "return_undefined"    -> Payload("empty", FALSE, "")
    [] p = "return_error_object" -> Payload("object", TRUE, "from the program")
    [] p = "throw_boom"          -> Payload("sentinel", TRUE, "Error: boom")
    [] p = "throw_empty"         -> Payload("sentinel", TRUE, "")

NoResult == [kind |-> "none", value |-> NoPayload, message |-> ""]
Returned(v) == [kind |-> "returned", value |-> v, message |-> ""]
Raised(m) == [kind |-> "raised", value |-> NoPayload, message |-> m]

\* Lines 62-68: JSON.parse(stdout), then the sentinel test.
DecodeMutNoSentinel(stdout) ==
  IF stdout.kind \in {"empty", "garbage"} THEN Raised("SyntaxError")
  ELSE Returned(stdout)

Decode(stdout) ==
  IF stdout.kind \in {"empty", "garbage"} THEN Raised("SyntaxError")
  ELSE IF stdout.error
       THEN Raised(IF stdout.message # "" THEN stdout.message
                   ELSE "JXA execution failed")
       ELSE Returned(stdout)

\* Line 48: the path is made of the clock's millisecond alone.
TempFileName(c, t) == t

InFlight(c) == pc[c] \in {"writing", "spawning", "running", "cleanup"}

Tick ==
  /\ now < MaxClock
  /\ now' = now + 1
  /\ UNCHANGED <<fs, pc, tempFile, program, loaded, result, spawns, exec, mailVars, otherVars>>

\* Lines 20-48: the synchronous head of runJXA, up to the first await.
Start(c, p) ==
  /\ pc[c] = "idle"
  /\ tempFile' = [tempFile EXCEPT ![c] = TempFileName(c, now)]
  /\ program' = [program EXCEPT ![c] = p]
  /\ pc' = [pc EXCEPT ![c] = "writing"]
  /\ UNCHANGED <<now, fs, loaded, result, spawns, exec, mailVars, otherVars>>

\* Line 51: await fs.writeFile(tempFile, wrappedCode).
WriteFile(c) ==
  /\ pc[c] = "writing"
  /\ fs' = [fs EXCEPT ![tempFile[c]] = [owner |-> c, prog |-> program[c]]]
  /\ pc' = [pc EXCEPT ![c] = "spawning"]
  /\ UNCHANGED <<now, tempFile, program, loaded, result, spawns, exec, mailVars, otherVars>>

\* Line 51, failing: the write is rejected and control goes to finally.
WriteFails(c) ==
  /\ pc[c] = "writing"
  /\ result' = [result EXCEPT ![c] = Raised("write failed")]
  /\ pc' = [pc EXCEPT ![c] = "cleanup"]
  /\ UNCHANGED <<now, fs, tempFile, program, loaded, spawns, exec, mailVars, otherVars>>

\* Lines 53-56: osascript starts and reads the file at the path.
HostLoad(c) ==
  /\ pc[c] = "spawning"
  /\ spawns' = [spawns EXCEPT ![c] = @ + 1]
  /\ loaded' = [loaded EXCEPT ![c] = fs[tempFile[c]]]
  /\ pc' = [pc EXCEPT ![c] = "running"]
  /\ UNCHANGED <<now, fs, tempFile, program, result, exec, mailVars, otherVars>>

HostOutcomes == {"exit0", "timeout", "nonzero", "garbage"}

\* How the host process ends: with no file at the path osascript exits non-zero.
HostEnd(c, outcome) == IF loaded[c] = NoFile THEN "nonzero" ELSE outcome

\* What the host process wrote to stdout by the time it ended.
HostStdout(c, outcome) ==
  CASE HostEnd(c, outcome) = "exit0"   -> HarnessOutput(loaded[c].prog)
    [] HostEnd(c, outcome) = "garbage" -> Payload("garbage", FALSE, "")
    [] OTHER                           -> NoPayload

NoExec == [outcome |-> "none", stdout |-> NoPayload]

\* What the awaited exec and the decoding give, lines 53-68.
ExecResult(c, outcome) ==
  CASE HostEnd(c, outcome) = "timeout" -> Raised("Command failed: timeout")
    [] HostEnd(c, outcome) = "nonzero" -> Raised("Command failed")
    [] OTHER                           -> Decode(HostStdout(c, outcome))

\* Lines 53-68: the host process ends (or is killed at the timeout); stdout is
\* decoded; the result is held while finally runs.
HostExitMutRetryOnTimeout(c, outcome) ==
  /\ pc[c] = "running"
  /\ exec' = [exec EXCEPT ![c] = [outcome |-> HostEnd(c, outcome),
                                  stdout |-> HostStdout(c, outcome)]]
  /\ result' = [result EXCEPT ![c] = ExecResult(c, outcome)]
  /\ pc' = [pc EXCEPT ![c] = IF HostEnd(c, outcome) = "timeout" /\ spawns[c] < 2
                             THEN "spawning" ELSE "cleanup"]
  /\ UNCHANGED <<now, fs, tempFile, program, loaded, spawns, mailVars, otherVars>>

HostExit(c, outcome) ==
  /\ pc[c] = "running"
  /\ exec' = [exec EXCEPT ![c] = [outcome |-> HostEnd(c, outcome),
                                  stdout |-> HostStdout(c, outcome)]]
  /\ result' = [result EXCEPT ![c] = ExecResult(c, outcome)]
  /\ pc' = [pc EXCEPT ![c] = "cleanup"]
  /\ UNCHANGED <<now, fs, tempFile, program, loaded, spawns, mailVars, otherVars>>

\* Lines 69-73: finally { try { await fs.unlink(tempFile) } catch {} }.
CleanupMutOnlyOnSuccess(c) ==
  IF result[c].kind = "returned"
  THEN [fs EXCEPT ![tempFile[c]] = NoFile]
  ELSE fs

Cleanup(c) == [fs EXCEPT ![tempFile[c]] = NoFile]

Unlink(c) ==
  /\ pc[c] = "cleanup"
  /\ fs' = Cleanup(c)
  /\ pc' = [pc EXCEPT ![c] = "done"]
  /\ UNCHANGED <<now, tempFile, program, loaded, result, spawns, exec, mailVars, otherVars>>

InitBridge ==
  /\ now = 0
  /\ fs = [p \in Paths |-> NoFile]
  /\ pc = [c \in Calls |-> "idle"]
  /\ tempFile = [c \in Calls |-> 0]
  /\ program = [c \in Calls |-> "none"]
  /\ loaded = [c \in Calls |-> NoFile]
  /\ result = [c \in Calls |-> NoResult]
  /\ spawns = [c \in Calls |-> 0]
  /\ exec = [c \in Calls |-> NoExec]

NextBridge ==
  \/ Tick
  \/ \E c \in Calls, p \in Programs : Start(c, p)
  \/ \E c \in Calls : WriteFile(c)
  \/ \E c \in Calls : WriteFails(c)
  \/ \E c \in Calls : HostLoad(c)
  \/ \E c \in Calls, outcome \in HostOutcomes : HostExit(c, outcome)
  \/ \E c \in Calls : Unlink(c)

----------------------------------------------------------------------------
(* Claims about the bridge executor *)

\* C1: a runJXA call that completes, by returning or by raising, leaves no
\* file at the temporary path it used.
C1_TempFileRemovedOnExit ==
  [][\A c \in Calls :
       (pc[c] = "cleanup" /\ pc'[c] = "done") => fs'[tempFile[c]] = NoFile]_vars

\* A call whose host process ran its own file, exceeded the timeout and raised:
\* the path is gone.
C1_Witness ==
  \E c \in Calls :
    /\ pc[c] = "done"
    /\ loaded[c].owner = c
    /\ result[c] = Raised("Command failed: timeout")
    /\ fs[tempFile[c]] = NoFile

\* C2: no two calls in flight share a temporary path.
C2_NoSharedTempFile ==
  \A c1, c2 \in Calls :
    (c1 # c2 /\ InFlight(c1) /\ InFlight(c2)) => tempFile[c1] # tempFile[c2]

\* the call has decoded what its host process printed
Decoded(c) == pc[c] \in {"cleanup", "done"} /\ exec[c].outcome \in {"exit0", "garbage"}

\* the decoded payload is the error sentinel: an object whose error field is true
IsSentinel(payload) == payload.error

\* C14 as stated: whenever the decoded payload is the error sentinel, the call
\* raises an error carrying the sentinel's message verbatim and never returns
\* the sentinel as a value.
C14_Original ==
  \A c \in Calls :
    (Decoded(c) /\ IsSentinel(exec[c].stdout))
      => result[c] = Raised(exec[c].stdout.message)

\* C14 as amended: whenever the decoded payload is the error sentinel, the call
\* never returns it as a value; it raises an error carrying the sentinel's
\* message verbatim when that message is not empty, and the fixed text
\* "JXA execution failed" when it is empty.
C14_SentinelRaises ==
  \A c \in Calls :
    (Decoded(c) /\ IsSentinel(exec[c].stdout))
      => /\ result[c].kind = "raised"
         /\ exec[c].stdout.message # "" => result[c].message = exec[c].stdout.message
         /\ exec[c].stdout.message = "" => result[c].message = "JXA execution failed"

\* The program threw, the harness printed the sentinel, the call raised its message.
C14_Witness ==
  \E c \in Calls :
    /\ pc[c] = "done"
    /\ exec[c].outcome = "exit0"
    /\ exec[c].stdout = Payload("sentinel", TRUE, "Error: boom")
    /\ result[c] = Raised("Error: boom")

\* the host process of the call failed: timeout, non-zero exit, undecodable
\* stdout or error sentinel
HostFailed(c) ==
  \/ exec[c].outcome \in {"timeout", "nonzero"}
  \/ exec[c].outcome \in {"exit0", "garbage"}
       /\ (exec[c].stdout.kind \in {"empty", "garbage"} \/ IsSentinel(exec[c].stdout))

\* C15: a call starts the host process at most once, whatever the failure, and
\* a call whose host process failed ends by raising to its caller.
C15_AtMostOnce ==
  \A c \in Calls :
    /\ spawns[c] <= 1
    /\ (pc[c] = "done" /\ HostFailed(c)) => (result[c].kind = "raised" /\ spawns[c] = 1)

\* A call whose host process was killed at the timeout: one process, the error raised.
C15_Witness ==
  \E c \in Calls :
    /\ pc[c] = "done"
    /\ exec[c].outcome = "timeout"
    /\ spawns[c] = 1
    /\ result[c].kind = "raised"

\* the wrapped code returns a value, it does not throw
ReturnsNormally(p) == p \in {"return_number", "return_undefined", "return_error_object"}

\* the host process of the call ran the call's own program to its end
RanOwnProgram(c) ==
  /\ pc[c] \in {"cleanup", "done"}
  /\ exec[c].outcome = "exit0"
  /\ loaded[c].owner = c

\* C30: a call whose program returned normally in the host, whatever the
\* value, returns that value to its caller and never raises.
C30_RaisesOnlyWhenThrew ==
  \A c \in Calls :
    (RanOwnProgram(c) /\ ReturnsNormally(loaded[c].prog))
      => result[c] = Returned(HarnessOutput(loaded[c].prog))

----------------------------------------------------------------------------
(* String parameters: escaping and the host's reading of the literal *)

Quote == "\""
Backslash == "\\"
\* the grave accent, which a string of this notation cannot hold
Backtick == "<backtick>"
Newline == "\n"

\* str.replace(/c/g, to): every occurrence of the character c replaced by to
RECURSIVE ReplaceAll(_, _, _)
ReplaceAll(str, c, to) ==
  IF str = <<>> THEN <<>>
  ELSE (IF Head(str) = c THEN to ELSE <<Head(str)>>) \o ReplaceAll(Tail(str), c, to)

\* jxa-executor.ts:79-81
escapeJXAString(str) ==
  ReplaceAll(ReplaceAll(str, Quote, <<Backslash, Quote>>), Backtick, <<Backslash, Backtick>>)

\* mail-accounts.ts:51: accountName.replace(/"/g, '\\"')
escapeAccountName(str) == ReplaceAll(str, Quote, <<Backslash, Quote>>)

Escapers == {"escapeJXAString", "escapeAccountName"}

Escape(how, str) ==
  IF how = "escapeJXAString" THEN escapeJXAString(str) ELSE escapeAccountName(str)

\* What the host's JavaScript reads \d as, inside a string literal.  A backslash
\* before a line end continues the line; before a character with no meaning of
\* its own it gives that character.
EscapeValue(d) ==
  CASE d = "n"     -> <<"\n">>
    [] d = "t"     -> <<"\t">>
    [] d = "r"     -> <<"\r">>
    [] d = "f"     -> <<"\f">>
    [] d = "b"     -> <<"<BS>">>
    [] d = "v"     -> <<"<VT>">>
    [] d = Newline -> <<>>
    [] OTHER       -> <<d>>

Read(value) == [ok |-> TRUE, value |-> value, why |-> "read"]
NotRead(why) == [ok |-> FALSE, value |-> <<>>, why |-> why]

\* The host reading the text placed between two double quotes of the program,
\* from character i on, acc being the value read so far.  A bare double quote
\* ends the literal before the text does; a bare line end, a backslash as the
\* last character (it escapes the closing quote) and \x or \u without
\* hexadecimal digits are syntax errors.
RECURSIVE HostLiteralFrom(_, _, _)
HostLiteralFrom(text, i, acc) ==
  IF i > Len(text) THEN Read(acc)
  ELSE IF text[i] = Quote THEN NotRead("ends early")
  ELSE IF text[i] = Newline THEN NotRead("syntax error")
  ELSE IF text[i] = Backslash
       THEN IF i = Len(text) \/ text[i + 1] \in {"x", "u"} THEN NotRead("syntax error")
            ELSE HostLiteralFrom(text, i + 2, acc \o EscapeValue(text[i + 1]))
  ELSE HostLiteralFrom(text, i + 1, Append(acc, text[i]))

HostLiteral(text) == HostLiteralFrom(text, 1, <<>>)

NoLiteral == [done |-> FALSE, how |-> "none", input |-> <<>>, escaped |-> <<>>,
              read |-> NotRead("none")]

\* A string parameter is escaped and interpolated between double quotes, and
\* the host reads the program.
Interpolate(how) ==
  /\ ~literal.done
  /\ literal' = [literal EXCEPT !.done = TRUE, !.how = how,
                                !.escaped = Escape(how, literal.input),
                                !.read = HostLiteral(Escape(how, literal.input))]
  /\ UNCHANGED <<outgoing, mailVars, bridgeVars>>

\* the characters of the string parameters drawn
Alphabet == {Quote, Backslash, Backtick, Newline, "n"}

----------------------------------------------------------------------------
(* The mail application: accounts, mailboxes, messages *)

\* Strings the scripts compare, upper-case or search are sequences of characters.
S_Work == <<"W", "o", "r", "k">>
S_Home == <<"H", "o", "m", "e">>
S_INBOX == <<"I", "N", "B", "O", "X">>
S_Inbox == <<"I", "n", "b", "o", "x">>
S_INBOX_Old == <<"I", "N", "B", "O", "X", ".", "O", "l", "d">>
S_Trash == <<"T", "r", "a", "s", "h">>
Null == <<"<null>">>

\* Mail.accounts() and account.mailboxes(), in enumeration order.
Accounts ==
  << [name |-> S_Work, mailboxes |-> <<S_INBOX, S_INBOX_Old>>],
     [name |-> S_Home, mailboxes |-> <<S_Inbox>>] >>

NoMbox == <<0, 0>>
MailboxName(key) == Accounts[key[1]].mailboxes[key[2]]
AccountName(key) == Accounts[key[1]].name

\* for (a ...) for (i ...): the order in which the scripts visit the mailboxes
ScanOrder == << <<1, 1>>, <<1, 2>>, <<2, 1>> >>
MailboxKeys == {ScanOrder[k] : k \in DOMAIN ScanOrder}

MessageIdsInStore == {1, 2}
MessageIdsAsked == {1, 2, 3}

Message(mid, read, date, subject, sender) ==
  [mid |-> mid, read |-> read, date |-> date, subject |-> subject, sender |-> sender]

RECURSIVE CountFrom(_, _)
CountFrom(m, k) ==
  IF k > Len(ScanOrder) THEN 0 ELSE Len(m[ScanOrder[k]]) + CountFrom(m, k + 1)

TotalMessages(m) == CountFrom(m, 1)

\* the messages s dealt to the mailboxes in scan order: the first a to the
\* first mailbox, the next b - a to the second, the rest to the third
Deal(s, a, b) ==
  (ScanOrder[1] :> SubSeq(s, 1, a)) @@ (ScanOrder[2] :> SubSeq(s, a + 1, b))
    @@ (ScanOrder[3] :> SubSeq(s, b + 1, Len(s)))

\* every store of at most MaxMsgs messages drawn from Msgs
Stores(Msgs) ==
  UNION {{Deal(s, cut[1], cut[2]) :
            cut \in {c \in (0..Len(s)) \X (0..Len(s)) : c[1] <= c[2]}} :
         s \in SeqsOf(Msgs, 0, MaxMsgs)}

----------------------------------------------------------------------------
(* The bulk operations: markAsRead, deleteEmails, moveEmails *)

BulkNames == {"markAsRead", "deleteEmails", "moveEmails"}

\* mail-operations.ts:229
inboxNames == <<S_INBOX, S_Inbox>>

\* mail-operations.ts:190-217: the destination mailbox, or NoMbox.
\* With an account name: the first account of that name, its first mailbox of
\* the name.  Without: the first mailbox of the name among all mailboxes.
ResolveTargetMutAnyAccount(destName, destAccount) ==
  IF \E k \in DOMAIN ScanOrder : MailboxName(ScanOrder[k]) = destName
  THEN ScanOrder[CHOOSE k \in DOMAIN ScanOrder :
                   /\ MailboxName(ScanOrder[k]) = destName
                   /\ \A h \in 1..(k - 1) : MailboxName(ScanOrder[h]) # destName]
  ELSE NoMbox

ResolveTarget(destName, destAccount) ==
  IF destAccount # Null
  THEN IF \E a \in DOMAIN Accounts : Accounts[a].name = destAccount
       THEN LET a == CHOOSE x \in DOMAIN Accounts :
                       /\ Accounts[x].name = destAccount
                       /\ \A y \in 1..(x - 1) : Accounts[y].name # destAccount
                j == IndexOf(Accounts[a].mailboxes, destName)
            IN IF j = 0 THEN NoMbox ELSE <<a, j>>
       ELSE NoMbox
  ELSE IF \E k \in DOMAIN ScanOrder : MailboxName(ScanOrder[k]) = destName
       THEN ScanOrder[CHOOSE k \in DOMAIN ScanOrder :
                        /\ MailboxName(ScanOrder[k]) = destName
                        /\ \A h \in 1..(k - 1) : MailboxName(ScanOrder[h]) # destName]
       ELSE NoMbox

\* The errors moveEmails reports; the text is a function of these fields.
TargetNotFound(destName, destAccount) ==
  [kind |-> "Target mailbox not found", ids |-> <<>>]
FailedToMove(mid) == [kind |-> "Failed to move message", ids |-> <<mid>>]
CouldNotFind(ids) == [kind |-> "Could not find messages: ", ids |-> ids]

\* mail-operations.ts:238-241: is the mailbox scanned at all
InScopeMutIgnoreFlag(b, key) == TRUE

InScope(b, key) ==
  ~(b.name = "moveEmails" /\ b.searchInboxOnly /\ ~Includes(inboxNames, MailboxName(key)))

\* The index the loop over a mailbox's messages starts at, and the next one
\* (1-based: 1 is messages[0], the oldest).
\* markAsRead: for (j = 0; j < length; j++); the others: for (j = length - 1; j >= 0; j--)
StartIndex(name, n) == IF name = "markAsRead" THEN 1 ELSE n
NextIndex(name, j) == IF name = "markAsRead" THEN j + 1 ELSE j - 1

\* mail-operations.ts:270-274 (moveEmails), 120 (markAsRead), 164 (deleteEmails):
\* the statements after the loops
FinishMutPerId(b) ==
  [b EXCEPT !.phase = "done",
            !.errors = IF b.name = "moveEmails"
                       THEN b.errors \o [h \in 1..Len(b.targetIds) |-> CouldNotFind(<<b.targetIds[h]>>)]
                       ELSE b.errors]

Finish(b) ==
  [b EXCEPT !.phase = "done",
            !.errors = IF b.name = "moveEmails" /\ Len(b.targetIds) > 0
                       THEN Append(b.errors, CouldNotFind(b.targetIds))
                       ELSE b.errors]

\* Enter the next mailbox at or after position k of the scan that is in scope and
\* has a message; mailbox.messages() is read then.  With none left, the loops end.
RECURSIVE EnterFrom(_, _, _)
EnterFrom(b, m, k) ==
  IF k > Len(ScanOrder) THEN Finish(b)
  ELSE IF ~InScope(b, ScanOrder[k]) \/ m[ScanOrder[k]] = <<>>
       THEN EnterFrom(b, m, k + 1)
       ELSE [b EXCEPT !.k = k,
                      !.messages = m[ScanOrder[k]],
                      !.j = StartIndex(b.name, Len(m[ScanOrder[k]]))]

\* The loop's step after message j of the current mailbox
AfterMessage(b, m) ==
  LET j2 == NextIndex(b.name, b.j)
  IN IF j2 \in 1..Len(b.messages) THEN [b EXCEPT !.j = j2]
     ELSE EnterFrom(b, m, b.k + 1)

\* msg.readStatus = true / msg.delete() / Mail.move(msg, {to: targetMbox}) on the
\* message at index j of mailbox key
ApplyActionMutToggle(b, m, key, j) ==
  CASE b.name = "markAsRead" ->
         [m EXCEPT ![key] = [@ EXCEPT ![j].read = ~@]]
    [] b.name = "deleteEmails" ->
         [m EXCEPT ![key] = Splice(@, j)]
    [] b.name = "moveEmails" ->
         LET msg == m[key][j]
             removed == [m EXCEPT ![key] = Splice(@, j)]
         IN [removed EXCEPT ![b.targetMbox] = Append(@, msg)]

ApplyActionMutOldest(b, m, key, j) ==
  CASE b.name = "markAsRead" ->
         [m EXCEPT ![key] = [@ EXCEPT ![1].read = TRUE]]
    [] b.name = "deleteEmails" ->
         [m EXCEPT ![key] = Splice(@, 1)]
    [] b.name = "moveEmails" ->
         LET msg == m[key][1]
             removed == [m EXCEPT ![key] = Splice(@, 1)]
         IN [removed EXCEPT ![b.targetMbox] = Append(@, msg)]

ApplyAction(b, m, key, j) ==
  CASE b.name = "markAsRead" ->
         [m EXCEPT ![key] = [@ EXCEPT ![j].read = TRUE]]
    [] b.name = "deleteEmails" ->
         [m EXCEPT ![key] = Splice(@, j)]
    [] b.name = "moveEmails" ->
         LET msg == m[key][j]
             removed == [m EXCEPT ![key] = Splice(@, j)]
         IN [removed EXCEPT ![b.targetMbox] = Append(@, msg)]

NoBulk ==
  [name |-> "none", phase |-> "idle", messageIds |-> <<>>,
   destName |-> Null, destAccount |-> Null, searchInboxOnly |-> FALSE,
   targetMbox |-> NoMbox, targetIds |-> <<>>, count |-> 0, errors |-> <<>>,
   k |-> 0, messages |-> <<>>, j |-> 0, examined |-> 0, thrown |-> {},
   retried |-> FALSE, prevCount |-> 0, prevThrown |-> {}, mail0 |-> <<>>]

\* The script's first statements, up to the first message it examines.
BeginScript(name, ids, destName, destAccount, inboxOnly, m, retried, prevCount, prevThrown) ==
  LET target == IF name = "moveEmails" THEN ResolveTarget(destName, destAccount)
                ELSE NoMbox
      b0 == [NoBulk EXCEPT !.name = name, !.phase = "scan", !.messageIds = ids,
                           !.destName = destName, !.destAccount = destAccount,
                           !.searchInboxOnly = inboxOnly, !.targetMbox = target,
                           !.targetIds = ids, !.retried = retried,
                           !.prevCount = prevCount, !.prevThrown = prevThrown,
                           !.mail0 = m]
  IN IF name = "moveEmails" /\ target = NoMbox
     THEN [b0 EXCEPT !.phase = "done",
                     !.errors = <<TargetNotFound(destName, destAccount)>>]
     ELSE EnterFrom(b0, m, 1)

\* The (destination mailbox, destination account) arguments tried
Destinations ==
  { <<S_INBOX_Old, Null>>, <<S_INBOX_Old, S_Work>>, <<S_INBOX_Old, S_Home>>,
    <<S_Trash, Null>> }

IdLists == SeqsOf(MessageIdsAsked, 1, MaxIds)

\* markAsRead(messageIds), deleteEmails(messageIds): the call and the script's start
BulkCall(name, ids) ==
  /\ bulk.phase = "idle"
  /\ name \in {"markAsRead", "deleteEmails"}
  /\ bulk' = BeginScript(name, ids, Null, Null, FALSE, mail, FALSE, 0, {})
  /\ UNCHANGED <<mail, search, listing, hierarchy, bridgeVars, otherVars>>

\* moveEmails(messageIds, targetMailbox, targetAccount, searchInboxOnly)
MoveCall(ids, dest, inboxOnly) ==
  /\ bulk.phase = "idle"
  /\ bulk' = BeginScript("moveEmails", ids, dest[1], dest[2], inboxOnly, mail, FALSE, 0, {})
  /\ UNCHANGED <<mail, search, listing, hierarchy, bridgeVars, otherVars>>

\* The client repeats the markAsRead call it just made, with the same arguments.
BulkRetry ==
  /\ bulk.phase = "done"
  /\ bulk.name = "markAsRead"
  /\ ~bulk.retried
  /\ bulk' = BeginScript(bulk.name, bulk.messageIds, bulk.destName, bulk.destAccount,
                         bulk.searchInboxOnly, mail, TRUE, bulk.count, bulk.thrown)
  /\ UNCHANGED <<mail, search, listing, hierarchy, bridgeVars, otherVars>>

CurrentKey == ScanOrder[bulk.k]
CurrentMsg == bulk.messages[bulk.j]

\* One pass of the innermost loop on a message that is no target:
\* targetIds.includes(msg.messageId()) is false.
ExamineOther ==
  /\ bulk.phase = "scan"
  /\ ~Includes(bulk.targetIds, CurrentMsg.mid)
  /\ bulk' = AfterMessage([bulk EXCEPT !.examined = @ + 1], mail)
  /\ UNCHANGED <<mail, search, listing, hierarchy, bridgeVars, otherVars>>

\* msg.messageId() throws: the catch around the mailbox's loop ends the mailbox.
AccessThrows ==
  /\ bulk.phase = "scan"
  /\ bulk' = EnterFrom([bulk EXCEPT !.examined = @ + 1,
                                    !.thrown = @ \cup {CurrentMsg.mid}],
                       mail, bulk.k + 1)
  /\ UNCHANGED <<mail, search, listing, hierarchy, bridgeVars, otherVars>>

\* The state of the script after the action on the current message succeeded:
\* count++, targetIds.splice(indexOf, 1), return when targetIds is empty.
AfterSuccessMutNoEarlyReturn(b, m) ==
  AfterMessage([b EXCEPT !.examined = @ + 1,
                         !.count = @ + 1,
                         !.targetIds = Splice(@, IndexOf(@, b.messages[b.j].mid))], m)

AfterSuccess(b, m) ==
  LET b1 == [b EXCEPT !.examined = @ + 1,
                      !.count = @ + 1,
                      !.targetIds = Splice(@, IndexOf(@, b.messages[b.j].mid))]
  IN IF Len(b1.targetIds) = 0 THEN [b1 EXCEPT !.phase = "done"]
     ELSE AfterMessage(b1, m)

\* One pass of the innermost loop on a target message, the action succeeding.
ActOnTarget ==
  /\ bulk.phase = "scan"
  /\ Includes(bulk.targetIds, CurrentMsg.mid)
  /\ mail' = ApplyAction(bulk, mail, CurrentKey, bulk.j)
  /\ bulk' = AfterSuccess(bulk, mail')
  /\ UNCHANGED <<search, listing, hierarchy, bridgeVars, otherVars>>

\* The state of the script after the action on the current message threw:
\* moveEmails catches it per message and pushes an error; markAsRead and
\* deleteEmails have only the catch around the mailbox's loop.
AfterThrow(b, m) ==
  LET b1 == [b EXCEPT !.examined = @ + 1, !.thrown = @ \cup {b.messages[b.j].mid}]
  IN IF b.name = "moveEmails"
     THEN AfterMessage([b1 EXCEPT !.errors = Append(@, FailedToMove(b.messages[b.j].mid))], m)
     ELSE EnterFrom(b1, m, b.k + 1)

\* One pass of the innermost loop on a target message, the action throwing.
ActionThrows ==
  /\ bulk.phase = "scan"
  /\ Includes(bulk.targetIds, CurrentMsg.mid)
  /\ bulk' = AfterThrow(bulk, mail)
  /\ UNCHANGED <<mail, search, listing, hierarchy, bridgeVars, otherVars>>

\* The state of the script when the action succeeded, the counter was
\* incremented, and the msg.messageId() of targetIds.indexOf(...) threw
\* (mail-operations.ts:105-108, 150-153, 253-255): the splice is not reached.
AfterIndexThrow(b, m) ==
  LET b1 == [b EXCEPT !.examined = @ + 1, !.count = @ + 1,
                      !.thrown = @ \cup {b.messages[b.j].mid}]
  IN IF b.name = "moveEmails"
     THEN AfterMessage([b1 EXCEPT !.errors = Append(@, FailedToMove(b.messages[b.j].mid))], m)
     ELSE EnterFrom(b1, m, b.k + 1)

\* One pass of the innermost loop on a target message, the action succeeding
\* and the message access after it throwing.
IndexThrows ==
  /\ bulk.phase = "scan"
  /\ Includes(bulk.targetIds, CurrentMsg.mid)
  /\ mail' = ApplyAction(bulk, mail, CurrentKey, bulk.j)
  /\ bulk' = AfterIndexThrow(bulk, mail')
  /\ UNCHANGED <<search, listing, hierarchy, bridgeVars, otherVars>>

BulkMessages ==
  {Message(mid, FALSE, 1, <<"h", "i">>, <<"a", "@", "x">>) : mid \in MessageIdsInStore}

NoSearch ==
  [fn |-> "none", searchTerm |-> <<>>, limit |-> 0, mailboxName |-> Null,
   accountName |-> Null, emails |-> <<>>, failed |-> FALSE]

NoHierarchy ==
  [done |-> FALSE, found |-> FALSE, tree |-> <<>>, roots |-> <<>>, total |-> 0]

EmptyStore == [key \in MailboxKeys |-> <<>>]

\* sendMail not called: Mail.outgoingMessages is empty
NoOutgoing ==
  [pc |-> "idle", accountName |-> Null, subject |-> <<>>, senderEmail |-> Null,
   messages |-> <<>>, sent |-> 0, result |-> NoResult]

InitNoStrings ==
  /\ literal = NoLiteral
  /\ outgoing = NoOutgoing

InitIdleOthers ==
  /\ search = NoSearch
  /\ listing = <<>>
  /\ hierarchy = NoHierarchy
  /\ InitNoStrings

InitEscape ==
  /\ InitBridge
  /\ mail = EmptyStore
  /\ bulk = [NoBulk EXCEPT !.mail0 = EmptyStore]
  /\ search = NoSearch
  /\ listing = <<>>
  /\ hierarchy = NoHierarchy
  /\ outgoing = NoOutgoing
  /\ literal \in {[NoLiteral EXCEPT !.input = s] : s \in SeqsOf(Alphabet, 0, MaxStrLen)}

NextEscape == \E how \in Escapers : Interpolate(how)

SpecEscape == InitEscape /\ [][NextEscape]_vars

SpecBridgeInit ==
  /\ InitBridge
  /\ mail = EmptyStore
  /\ bulk = [NoBulk EXCEPT !.mail0 = EmptyStore]
  /\ InitIdleOthers

SpecBridge == SpecBridgeInit /\ [][NextBridge]_vars

InitBulk ==
  /\ InitBridge
  /\ mail \in Stores(BulkMessages)
  /\ bulk = [NoBulk EXCEPT !.mail0 = mail]
  /\ InitIdleOthers

NextBulk ==
  \/ \E name \in {"markAsRead", "deleteEmails"}, ids \in IdLists : BulkCall(name, ids)
  \/ \E ids \in IdLists, dest \in Destinations, io \in BOOLEAN : MoveCall(ids, dest, io)
  \/ BulkRetry
  \/ ExamineOther
  \/ AccessThrows
  \/ ActOnTarget
  \/ ActionThrows
  \/ IndexThrows

SpecBulk == InitBulk /\ [][NextBulk]_vars

----------------------------------------------------------------------------
(* sendMail *)

\* accounts[i].emailAddresses(), by account: Work has an address, Home has none
emailAddresses == << << <<"w", "@", "x">> >>, <<>> >>

\* error.toString() of the Error thrown at mail-operations.ts:41, which the
\* harness puts in the sentinel's message and runJXA raises
AccountNotFound == "Error: Account not found or has no email addresses"

\* mail-operations.ts:16 and 27, 31: the value the host reads for "${escapedAccount}";
\* no account name (undefined) gives the empty literal
AccountLiteral(accountName) ==
  HostLiteral(IF accountName = Null \/ accountName = <<>> THEN <<>>
              ELSE escapeJXAString(accountName))

\* mail-operations.ts:13 and 47
SubjectLiteral(subject) == HostLiteral(escapeJXAString(subject))

\* mail-operations.ts:28-38: the first account of that name, and its first
\* address if it has one
SenderEmail(name) ==
  LET named == {a \in DOMAIN Accounts : Accounts[a].name = name}
  IN IF named = {} THEN Null
     ELSE LET a == CHOOSE x \in named : \A y \in named : x <= y
          IN IF Len(emailAddresses[a]) > 0 THEN emailAddresses[a][1] ELSE Null

\* sendMail(options) up to line 43: the program is built and read by the host,
\* and the sender is looked up when the account literal is a non-empty string
SendMailCall(accountName, subject) ==
  /\ outgoing.pc = "idle"
  /\ LET account == AccountLiteral(accountName)
         called == [outgoing EXCEPT !.accountName = accountName, !.subject = subject]
     IN outgoing' =
          IF ~account.ok \/ ~SubjectLiteral(subject).ok
          THEN [called EXCEPT !.pc = "done", !.result = Raised("syntax error")]
          ELSE IF account.value # <<>>
               THEN IF SenderEmail(account.value) = Null
                    THEN [called EXCEPT !.pc = "done", !.result = Raised(AccountNotFound)]
                    ELSE [called EXCEPT !.pc = "create",
                                        !.senderEmail = SenderEmail(account.value)]
               ELSE [called EXCEPT !.pc = "create"]
  /\ UNCHANGED <<literal, mailVars, bridgeVars>>

\* mail-operations.ts:46-75: the message is made, pushed to the outgoing
\* messages, given its sender and sent
CreateAndSend ==
  /\ outgoing.pc = "create"
  /\ outgoing' = [outgoing EXCEPT
                    !.pc = "done",
                    !.messages = Append(@, [subject |-> SubjectLiteral(outgoing.subject).value,
                                            sender |-> outgoing.senderEmail]),
                    !.sent = @ + 1,
                    !.result = Returned(Payload("string", FALSE, ""))]
  /\ UNCHANGED <<literal, mailVars, bridgeVars>>

\* from: undefined, the empty string, an account with an address, one without,
\* no account, and a name no account has that holds a backslash
SendAccountNames ==
  {Null, <<>>, S_Work, S_Home, S_Trash, <<Backslash>> \o S_Work, S_Work \o <<Backslash>>}

Subjects == SeqsOf(Alphabet, 1, MaxStrLen)

InitSend ==
  /\ InitBridge
  /\ mail = EmptyStore
  /\ bulk = [NoBulk EXCEPT !.mail0 = EmptyStore]
  /\ InitIdleOthers

NextSend ==
  \/ \E accountName \in SendAccountNames, subject \in Subjects :
       SendMailCall(accountName, subject)
  \/ CreateAndSend

SpecSend == InitSend /\ [][NextSend]_vars

----------------------------------------------------------------------------
(* Claims about string parameters *)

\* C24: every string parameter, escaped and interpolated into the program, is
\* read by the host as a literal whose value is the caller's string.
C24_LiteralDenotesInput ==
  literal.done => (literal.read.ok /\ literal.read.value = literal.input)

\* the name is given and no account of that name has an email address
NoUsableAccount(name) ==
  /\ name # Null
  /\ \A a \in DOMAIN Accounts : Accounts[a].name = name => Len(emailAddresses[a]) = 0

\* C26: sendMail with an account name that matches no account, or an account
\* without email addresses, fails with the account-not-found error, and no
\* outgoing message is created and nothing is sent.
C26_UnknownAccountSendsNothing ==
  (outgoing.pc # "idle" /\ NoUsableAccount(outgoing.accountName)) =>
    /\ outgoing.messages = <<>>
    /\ outgoing.sent = 0
    /\ outgoing.pc = "done"
    /\ outgoing.result = Raised(AccountNotFound)

----------------------------------------------------------------------------
(* Claims about the bulk operations *)

BulkDone == bulk.phase = "done"

\* The call got as far as scanning: every call but a moveEmails whose
\* destination did not resolve.
Scanned == bulk.name # "moveEmails" \/ bulk.targetMbox # NoMbox

\* The mailboxes the call is meant to look in
ScopeKeys ==
  IF bulk.name = "moveEmails" /\ bulk.searchInboxOnly
  THEN {key \in MailboxKeys : MailboxName(key) \in {S_INBOX, S_Inbox}}
  ELSE MailboxKeys

\* id is the Message-ID of a message that was in scope when the call began
Findable(id) ==
  \E key \in ScopeKeys : \E j \in 1..Len(bulk.mail0[key]) : bulk.mail0[key][j].mid = id

DistinctIds == \A g, h \in 1..Len(bulk.messageIds) :
                 g # h => bulk.messageIds[g] # bulk.messageIds[h]

N_ids == Len(bulk.messageIds)
M_findable == Cardinality({h \in 1..Len(bulk.messageIds) : Findable(bulk.messageIds[h])})

ReturnsErrors == bulk.name = "moveEmails"

C4_LeftoverReportedOnce ==
  (BulkDone /\ Scanned /\ bulk.targetIds # <<>>)
    => /\ ReturnsErrors
       /\ Cardinality({h \in 1..Len(bulk.errors) :
                         bulk.errors[h] = CouldNotFind(bulk.targetIds)}) = 1
       /\ Cardinality({h \in 1..Len(bulk.errors) :
                         bulk.errors[h].kind = CouldNotFind(<<>>).kind}) = 1

\* C5: an identifier whose access or action throws never keeps another
\* identifier from being processed: every identifier left unprocessed at the
\* end either threw itself or was not findable in scope.
C5_PartialTolerant ==
  (BulkDone /\ Scanned /\ DistinctIds)
    => \A h \in 1..Len(bulk.targetIds) :
         bulk.targetIds[h] \in bulk.thrown \/ ~Findable(bulk.targetIds[h])

\* No mailbox has the destination's name (inside the named account, when one
\* is named).
Unresolvable(destName, destAccount) ==
  IF destAccount # Null
  THEN ~\E key \in MailboxKeys :
          AccountName(key) = destAccount /\ MailboxName(key) = destName
  ELSE ~\E key \in MailboxKeys : MailboxName(key) = destName

AllTargetsRead ==
  \A key \in MailboxKeys : \A j \in 1..Len(bulk.mail0[key]) :
    Includes(bulk.messageIds, bulk.mail0[key][j].mid) => bulk.mail0[key][j].read

\* C7: markAsRead on messages that are already read changes no message, and a
\* second identical call returns the count of the first and changes nothing
\* (no access or action throwing in either).
C7_MarkAsReadIdempotent ==
  (BulkDone /\ bulk.name = "markAsRead")
    => /\ AllTargetsRead => mail = bulk.mail0
       /\ (bulk.retried /\ bulk.thrown = {} /\ bulk.prevThrown = {})
            => (bulk.count = bulk.prevCount /\ mail = bulk.mail0)

C7_Witness ==
  /\ BulkDone /\ bulk.name = "markAsRead" /\ bulk.retried
  /\ bulk.thrown = {} /\ bulk.prevThrown = {}
  /\ AllTargetsRead
  /\ bulk.count >= 1 /\ bulk.count = bulk.prevCount

\* the mailbox is an inbox: its name is INBOX or Inbox
IsInbox(key) == MailboxName(key) \in {S_INBOX, S_Inbox}

\* id names a message of the store when the call began, and only outside inboxes
OnlyOutsideInboxes(id) ==
  /\ \E key \in MailboxKeys : \E j \in 1..Len(bulk.mail0[key]) : bulk.mail0[key][j].mid = id
  /\ \A key \in MailboxKeys : \A j \in 1..Len(bulk.mail0[key]) :
       bulk.mail0[key][j].mid = id => ~IsInbox(key)

ReportedNotFound(id) ==
  \E h \in 1..Len(bulk.errors) :
    bulk.errors[h].kind = CouldNotFind(<<>>).kind /\ Includes(bulk.errors[h].ids, id)

InboxOnlyMove == bulk.name = "moveEmails" /\ bulk.searchInboxOnly

\* C16: moveEmails with searchInboxOnly = true (and a destination that
\* resolves) examines and moves messages of inbox mailboxes only, and reports
\* as not found every identifier that exists only outside the inboxes.
C16_InboxOnlyScope ==
  /\ [][(InboxOnlyMove /\ bulk.phase = "scan"
           /\ (bulk'.examined > bulk.examined \/ mail' # mail))
          => IsInbox(ScanOrder[bulk.k])]_vars
  /\ [](InboxOnlyMove /\ BulkDone /\ Scanned
          => /\ \A h \in 1..Len(bulk.messageIds) :
                  OnlyOutsideInboxes(bulk.messageIds[h]) => ReportedNotFound(bulk.messageIds[h])
             /\ \A key \in MailboxKeys :
                  (~IsInbox(key) /\ key # bulk.targetMbox) => mail[key] = bulk.mail0[key])

\* One identifier was moved out of an inbox; the other, whose message sits in
\* INBOX.Old, was left where it is and reported as not found.
C16_Witness ==
  /\ InboxOnlyMove /\ BulkDone /\ Scanned
  /\ bulk.count = 1
  /\ \E h \in 1..Len(bulk.messageIds) :
       /\ OnlyOutsideInboxes(bulk.messageIds[h])
       /\ ReportedNotFound(bulk.messageIds[h])
       /\ \E j \in 1..Len(mail[<<1, 2>>]) : mail[<<1, 2>>][j].mid = bulk.messageIds[h]

\* the "Failed to move message" errors of the result that name id
FailedToMoveCount(id) ==
  Cardinality({h \in 1..Len(bulk.errors) : bulk.errors[h] = FailedToMove(id)})

\* every identifier that met a throw has its "Failed to move message" error:
\* the throws of the call were throws of the move action
ThrowsWereMoves == \A id \in bulk.thrown : FailedToMoveCount(id) >= 1

\* C19: in moveEmails every identifier whose move throws is reported as exactly
\* one error, and the joined "Could not find messages" error names only
\* identifiers that were never found in scope.
C19_MoveThrowReportedOnce ==
  (BulkDone /\ bulk.name = "moveEmails" /\ Scanned /\ DistinctIds /\ ThrowsWereMoves)
    => /\ \A id \in bulk.thrown : FailedToMoveCount(id) = 1
       /\ \A h \in 1..Len(bulk.errors) :
            bulk.errors[h].kind = CouldNotFind(<<>>).kind
              => \A g \in 1..Len(bulk.errors[h].ids) : ~Findable(bulk.errors[h].ids[g])

\* C20: every bulk operation stops scanning once its working set is empty: the
\* step that acts on the last target identifier ends the call with the count,
\* no script is ever scanning with an empty working set, and a call that has
\* ended examines and changes nothing more.
C20_StopsWhenWorkingSetEmpty ==
  /\ [][(bulk.phase = "scan" /\ bulk'.targetIds = <<>>)
          => /\ bulk'.phase = "done"
             /\ bulk'.examined = bulk.examined + 1
             /\ bulk'.count = bulk.count + 1]_vars
  /\ [](bulk.phase = "scan" => bulk.targetIds # <<>>)
  /\ [][bulk.phase = "done" => (bulk'.examined <= bulk.examined /\ mail' = mail)]_vars

\* The only target was acted on and the call ended with a message of the
\* store never examined.
C20_Witness ==
  /\ BulkDone /\ Scanned
  /\ bulk.targetIds = <<>>
  /\ bulk.count >= 1
  /\ bulk.examined < TotalMessages(bulk.mail0)

\* the messages of a mailbox whose Message-ID the call was not given, in order
Untargeted(messages) ==
  SelectSeq(messages, LAMBDA msg : ~Includes(bulk.messageIds, msg.mid))

\* C27: the bulk operations never mark, delete or move a message whose
\* Message-ID is not in the input list: in every mailbox those messages are
\* the ones that were there when the call began, unchanged and in their order.
C27_OnlyTargetedChange ==
  bulk.phase # "idle" =>
    \A key \in MailboxKeys : Untargeted(mail[key]) = Untargeted(bulk.mail0[key])

\* The call acted on a message of a mailbox that also holds a message whose
\* Message-ID it was not given.
C27_Witness ==
  /\ bulk.phase = "done"
  /\ bulk.count >= 1
  /\ \E key \in MailboxKeys :
       /\ mail[key] # bulk.mail0[key]
       /\ Untargeted(bulk.mail0[key]) # <<>>

\* how often id occurs in a list of identifiers
Occurrences(ids, id) == Cardinality({h \in DOMAIN ids : ids[h] = id})

\* C28: throughout a bulk call the success counter plus the size of the
\* working set is the number of input identifiers, so the count never exceeds
\* it; and every success takes one occurrence of the acted message's
\* identifier out of the working set, so an identifier given once is acted on
\* at most once however many messages carry it.
C28_CountPlusWorkingSet ==
  /\ [](bulk.phase # "idle" =>
         /\ bulk.count + Len(bulk.targetIds) = Len(bulk.messageIds)
         /\ bulk.count <= Len(bulk.messageIds)
         /\ \A id \in MessageIdsAsked :
              Occurrences(bulk.targetIds, id) <= Occurrences(bulk.messageIds, id))
  /\ [][(bulk.phase = "scan" /\ (mail' # mail \/ bulk'.count # bulk.count)) =>
          /\ bulk'.count = bulk.count + 1
          /\ Includes(bulk.targetIds, CurrentMsg.mid)
          /\ \A id \in MessageIdsAsked :
               Occurrences(bulk'.targetIds, id) =
                 Occurrences(bulk.targetIds, id) - (IF id = CurrentMsg.mid THEN 1 ELSE 0)]_vars

\* C21: all three bulk operations examine the messages of each mailbox
\* newest-first: a scan enters a mailbox at its highest index and goes down
\* by one from message to message.
C21_NewestFirstWithinMailbox ==
  [][bulk'.phase = "scan"
       => IF bulk.phase = "scan" /\ bulk'.k = bulk.k
          THEN bulk'.j = bulk.j - 1
          ELSE bulk'.j = Len(bulk'.messages)]_vars

----------------------------------------------------------------------------
(* The searches: searchMails, searchInbox, searchInMailbox *)

\* schemas.ts:210, config.search.messagesPerSearch (its default)
messagesPerSearch == 50
\* mail-search.ts:155, the messages searchInbox checks per inbox
inboxCheckCount == 100
\* mail-search.ts:29, the accounts searchMails looks at
maxSearchAccounts == 3

\* mail-search.ts:27
priorityNames ==
  << S_INBOX,
     <<"S", "e", "n", "t", " ", "M", "e", "s", "s", "a", "g", "e", "s">>,
     <<"S", "e", "n", "t">> >>

\* mail-search.ts:13 and 20: var searchLower = "${escapedSearch}", the value the
\* host reads for the term, lower-cased and escaped
SearchLower(searchTerm) == HostLiteral(escapeJXAString(ToLowerCase(searchTerm)))

\* The program cannot be read (the literal is malformed): osascript exits with a
\* syntax error, and runJXA rejects.
SearchFails(searchTerm) == ~SearchLower(searchTerm).ok

\* mail-search.ts:65-68: subject or sender, lower-cased, contains the term
Matches(msg, searchLower) ==
  \/ StrIncludes(ToLowerCase(msg.subject), searchLower)
  \/ StrIncludes(ToLowerCase(msg.sender), searchLower)

\* mail-search.ts:77-90: the element pushed for a matching message
Email(msg, key) ==
  [messageId |-> msg.mid, subject |-> msg.subject, sender |-> msg.sender,
   dateReceived |-> msg.date, mailbox |-> key]

\* The loop over one mailbox's messages, newest index first:
\* for (j = messageCount - 1; j >= startIdx && collected < maxEmails; j--).
\* j is 1-based here, so the loop runs while j > startIdx.
RECURSIVE ScanMessagesMutNoLimit(_, _, _, _, _, _, _)
ScanMessagesMutNoLimit(emails, msgs, j, startIdx, maxEmails, searchLower, key) ==
  IF j <= startIdx THEN emails
  ELSE ScanMessagesMutNoLimit(
         IF Matches(msgs[j], searchLower) THEN Append(emails, Email(msgs[j], key))
         ELSE emails,
         msgs, j - 1, startIdx, maxEmails, searchLower, key)

RECURSIVE ScanMessages(_, _, _, _, _, _, _)
ScanMessages(emails, msgs, j, startIdx, maxEmails, searchLower, key) ==
  IF j <= startIdx \/ Len(emails) >= maxEmails THEN emails
  ELSE ScanMessages(
         IF Matches(msgs[j], searchLower) THEN Append(emails, Email(msgs[j], key))
         ELSE emails,
         msgs, j - 1, startIdx, maxEmails, searchLower, key)

\* checkCount, startIdx and the loop, for one mailbox
ScanMailbox(emails, m, key, perMailbox, maxEmails, searchLower) ==
  LET messageCount == Len(m[key])
      checkCount == Min(perMailbox, messageCount)
      startIdx == Max(0, messageCount - checkCount)
  IN ScanMessages(emails, m[key], messageCount, startIdx, maxEmails, searchLower, key)

\* mail-search.ts:38-50
IsPriority(name) ==
  \E p \in DOMAIN priorityNames :
    StrIncludes(ToUpperCase(name), ToUpperCase(priorityNames[p]))

\* mail-search.ts:31-105: the loops of searchMails over accounts and mailboxes
RECURSIVE SearchMailsFrom(_, _, _, _, _)
SearchMailsFrom(emails, m, k, maxEmails, searchLower) ==
  IF k > Len(ScanOrder) \/ Len(emails) >= maxEmails THEN emails
  ELSE LET key == ScanOrder[k]
       IN IF key[1] > Min(maxSearchAccounts, Len(Accounts)) \/ ~IsPriority(MailboxName(key))
          THEN SearchMailsFrom(emails, m, k + 1, maxEmails, searchLower)
          ELSE SearchMailsFrom(
                 ScanMailbox(emails, m, key, messagesPerSearch, maxEmails, searchLower),
                 m, k + 1, maxEmails, searchLower)

\* emails.sort(function(a, b) { return date(b) - date(a) }): stable, newest first
RECURSIVE InsertByDate(_, _)
InsertByDate(sorted, e) ==
  IF sorted = <<>> THEN <<e>>
  ELSE IF Head(sorted).dateReceived >= e.dateReceived
       THEN <<Head(sorted)>> \o InsertByDate(Tail(sorted), e)
       ELSE <<e>> \o sorted

RECURSIVE SortByDate(_)
SortByDate(emails) ==
  IF emails = <<>> THEN <<>>
  ELSE InsertByDate(SortByDate(SubSeq(emails, 1, Len(emails) - 1)), emails[Len(emails)])

\* searchMails(searchTerm, limit), mail-search.ts:12-114
searchMails(m, searchTerm, limit) ==
  SortByDate(SearchMailsFrom(<<>>, m, 1, limit, SearchLower(searchTerm).value))

\* mail-search.ts:133-144: of each account the first mailbox whose upper-cased
\* name contains INBOX
InboxOfMutEveryLike(a) ==
  LET boxes == Accounts[a].mailboxes
      like == {i \in DOMAIN boxes : StrIncludes(ToUpperCase(boxes[i]), S_INBOX)}
  IN [h \in 1..Cardinality(like) |->
        <<a, CHOOSE i \in like : Cardinality({g \in like : g < i}) = h - 1>>]

InboxOf(a) ==
  LET boxes == Accounts[a].mailboxes
      like == {i \in DOMAIN boxes : StrIncludes(ToUpperCase(boxes[i]), S_INBOX)}
  IN IF like = {} THEN <<>>
     ELSE << <<a, CHOOSE i \in like : \A h \in like : i <= h>> >>

RECURSIVE InboxesFrom(_)
InboxesFrom(a) ==
  IF a > Len(Accounts) THEN <<>> ELSE InboxOf(a) \o InboxesFrom(a + 1)

\* mail-search.ts:147-195: the loop of searchInbox over the inboxes
RECURSIVE SearchInboxesFrom(_, _, _, _, _, _)
SearchInboxesFrom(emails, m, inboxes, i, maxEmails, searchLower) ==
  IF i > Len(inboxes) \/ Len(emails) >= maxEmails THEN emails
  ELSE SearchInboxesFrom(
         ScanMailbox(emails, m, inboxes[i], inboxCheckCount, maxEmails, searchLower),
         m, inboxes, i + 1, maxEmails, searchLower)

\* searchInbox(searchTerm, limit), mail-search.ts:119-199: no sort at the end
searchInbox(m, searchTerm, limit) ==
  SearchInboxesFrom(<<>>, m, InboxesFrom(1), 1, limit, SearchLower(searchTerm).value)

\* mail-search.ts:227-256: the mailbox searchInMailbox looks in, or NoMbox
FindMailbox(mailboxName, accountName) ==
  LET named == IF accountName # Null
               THEN LET accts == {a \in DOMAIN Accounts : Accounts[a].name = accountName}
                    IN IF accts = {} THEN {}
                       ELSE LET a == CHOOSE x \in accts : \A y \in accts : x <= y
                            IN {k \in DOMAIN ScanOrder :
                                  ScanOrder[k][1] = a /\ MailboxName(ScanOrder[k]) = mailboxName}
               ELSE {k \in DOMAIN ScanOrder : MailboxName(ScanOrder[k]) = mailboxName}
  IN IF named = {} THEN NoMbox
     ELSE ScanOrder[CHOOSE k \in named : \A h \in named : k <= h]

\* searchInMailbox(mailboxName, searchTerm, accountName, limit), mail-search.ts:204-312
searchInMailbox(m, mailboxName, searchTerm, accountName, limit) ==
  LET targetMailbox == FindMailbox(mailboxName, accountName)
  IN IF targetMailbox = NoMbox THEN <<>>
     ELSE ScanMailbox(<<>>, m, targetMailbox, messagesPerSearch, limit,
                      SearchLower(searchTerm).value)

\* plain terms, and terms that hold a backslash
SearchTerms == { <<"A", "B">>, <<"x">>, <<Backslash, "a">>, <<Backslash>> }
Limits == 1..MaxLimit

SearchMails(searchTerm, limit) ==
  /\ search.fn = "none"
  /\ search' = [NoSearch EXCEPT !.fn = "searchMails", !.searchTerm = searchTerm,
                                !.limit = limit, !.failed = SearchFails(searchTerm),
                                !.emails = IF SearchFails(searchTerm) THEN <<>>
                                           ELSE searchMails(mail, searchTerm, limit)]
  /\ UNCHANGED <<mail, bulk, listing, hierarchy, bridgeVars, otherVars>>

SearchInbox(searchTerm, limit) ==
  /\ search.fn = "none"
  /\ search' = [NoSearch EXCEPT !.fn = "searchInbox", !.searchTerm = searchTerm,
                                !.limit = limit, !.failed = SearchFails(searchTerm),
                                !.emails = IF SearchFails(searchTerm) THEN <<>>
                                           ELSE searchInbox(mail, searchTerm, limit)]
  /\ UNCHANGED <<mail, bulk, listing, hierarchy, bridgeVars, otherVars>>

SearchInMailbox(where, searchTerm, limit) ==
  /\ search.fn = "none"
  /\ search' = [NoSearch EXCEPT !.fn = "searchInMailbox", !.searchTerm = searchTerm,
                                !.limit = limit, !.mailboxName = where[1],
                                !.accountName = where[2],
                                !.failed = SearchFails(searchTerm),
                                !.emails = IF SearchFails(searchTerm) THEN <<>>
                                           ELSE searchInMailbox(mail, where[1], searchTerm,
                                                                where[2], limit)]
  /\ UNCHANGED <<mail, bulk, listing, hierarchy, bridgeVars, otherVars>>

\* (subject, sender) of the messages in the store
MessageTexts ==
  { << <<"A", "b">>, <<"x">> >>, << <<"x">>, <<"a", "B">> >>, << <<"x">>, <<"y">> >> }
Dates == {1, 2}

SearchMessages ==
  {Message(1, FALSE, d, t[1], t[2]) : d \in Dates, t \in MessageTexts}

InitSearch ==
  /\ InitBridge
  /\ mail \in Stores(SearchMessages)
  /\ bulk = [NoBulk EXCEPT !.mail0 = EmptyStore]
  /\ search = NoSearch
  /\ listing = <<>>
  /\ hierarchy = NoHierarchy
  /\ InitNoStrings

NextSearch ==
  \/ \E t \in SearchTerms, limit \in Limits : SearchMails(t, limit)
  \/ \E t \in SearchTerms, limit \in Limits : SearchInbox(t, limit)
  \/ \E where \in Destinations, t \in SearchTerms, limit \in Limits :
       SearchInMailbox(where, t, limit)

SpecSearch == InitSearch /\ [][NextSearch]_vars

----------------------------------------------------------------------------
(* getLatestMails *)

S_Drafts == <<"D", "r", "a", "f", "t", "s">>

\* DEFAULT_PRIORITY_MAILBOXES
latestPriorityNames == priorityNames \o <<S_Drafts>>
\* the mailboxes getLatestMails looks at: Math.min(10, orderedMailboxes.length)
latestMailboxLimit == 10
\* the messages it takes of each: Math.min(50, messages.length)
latestCheckCount == 50

\* name === p.toUpperCase() || name.includes(p.toUpperCase()), for some p
IsLatestPriority(name) ==
  \E p \in DOMAIN latestPriorityNames :
    \/ ToUpperCase(name) = ToUpperCase(latestPriorityNames[p])
    \/ StrIncludes(ToUpperCase(name), ToUpperCase(latestPriorityNames[p]))

\* the first account of the name, 0 for none
FindAccount(accountName) ==
  LET accts == {a \in DOMAIN Accounts : Accounts[a].name = accountName}
  IN IF accts = {} THEN 0 ELSE CHOOSE x \in accts : \A y \in accts : x <= y

\* priorityMailboxes.concat(otherMailboxes), as positions in the account
OrderedMailboxes(a) ==
  LET boxes == Accounts[a].mailboxes
      idx == [i \in DOMAIN boxes |-> i]
      Pri(i) == IsLatestPriority(boxes[i])
      Oth(i) == ~IsLatestPriority(boxes[i])
  IN SelectSeq(idx, Pri) \o SelectSeq(idx, Oth)

\* for (j = messages.length - 1; j >= startIdx; j--) allMessages.push(...)
RECURSIVE TakeMessages(_, _, _, _, _)
TakeMessages(all, msgs, j, startIdx, key) ==
  IF j <= startIdx THEN all
  ELSE TakeMessages(Append(all, Email(msgs[j], key)), msgs, j - 1, startIdx, key)

\* for (i = 0; i < checkLimit; i++), from position i of the ordered mailboxes
RECURSIVE CollectLatest(_, _, _, _, _)
CollectLatest(all, m, a, ordered, i) ==
  IF i > Min(latestMailboxLimit, Len(ordered)) THEN all
  ELSE LET key == <<a, ordered[i]>>
           n == Len(m[key])
           startIdx == Max(0, n - Min(latestCheckCount, n))
       IN CollectLatest(TakeMessages(all, m[key], n, startIdx, key), m, a, ordered, i + 1)

\* allMessages before the sort
allMessages(m, accountName) ==
  LET a == FindAccount(accountName)
  IN IF a = 0 THEN <<>> ELSE CollectLatest(<<>>, m, a, OrderedMailboxes(a), 1)

\* Array.prototype.slice(0, n) for n >= 0
Slice(s, n) == SubSeq(s, 1, Min(n, Len(s)))

getLatestMailsMutSliceFirst(m, accountName, limit) ==
  SortByDate(Slice(allMessages(m, accountName), limit))

\* getLatestMails(accountName, limit)
getLatestMails(m, accountName, limit) ==
  Slice(SortByDate(allMessages(m, accountName)), limit)

AccountNames == {S_Work, S_Home, S_Trash}

GetLatestMails(accountName, limit) ==
  /\ search.fn = "none"
  /\ search' = [NoSearch EXCEPT !.fn = "getLatestMails", !.limit = limit,
                                !.accountName = accountName,
                                !.emails = getLatestMails(mail, accountName, limit)]
  /\ UNCHANGED <<mail, bulk, listing, hierarchy, bridgeVars, otherVars>>

InitLatest == InitSearch

NextLatest == \E accountName \in AccountNames, limit \in Limits : GetLatestMails(accountName, limit)

SpecLatest == InitLatest /\ [][NextLatest]_vars

----------------------------------------------------------------------------
(* Claims about the searches *)

Searched == search.fn # "none"

\* the messages of the store that match the term of the call
MatchingInStore ==
  {<<key, j>> \in MailboxKeys \X (1..MaxMsgs) :
     j <= Len(mail[key]) /\ Matches(mail[key][j], ToLowerCase(search.searchTerm))}

\* C8: searchMails, searchInbox and searchInMailbox never return more than
\* limit results.
C8_AtMostLimit == Searched => Len(search.emails) <= search.limit

\* More messages match than the limit allows, and the call returned limit of them.
C8_Witness ==
  /\ search.fn = "searchMails"
  /\ Cardinality(MatchingInStore) > search.limit
  /\ Len(search.emails) = search.limit

FromSeveralMailboxes ==
  \E g, h \in 1..Len(search.emails) : search.emails[g].mailbox # search.emails[h].mailbox

\* C9: whenever the results of a search are drawn from more than one mailbox,
\* they are in non-increasing order of dateReceived.
C9_MultiMailboxSorted ==
  (Searched /\ FromSeveralMailboxes)
    => \A g, h \in 1..Len(search.emails) :
         g < h => search.emails[g].dateReceived >= search.emails[h].dateReceived

\* the matching messages in the scope searchMails scans: the priority mailboxes
\* of the first accounts, the last messagesPerSearch messages of each
MatchingInScope ==
  {pos \in MatchingInStore :
     /\ pos[1][1] <= Min(maxSearchAccounts, Len(Accounts))
     /\ IsPriority(MailboxName(pos[1]))
     /\ pos[2] > Len(mail[pos[1]]) - messagesPerSearch}

EmailAt(pos) == Email(mail[pos[1]][pos[2]], pos[1])

\* C18: searchMails returns the limit newest of all the matching messages in
\* the scanned scope: as many as the limit allows, and none older than a
\* matching message that was left out.
C18_SearchMailsNewestOfMatching ==
  search.fn = "searchMails" =>
    /\ Len(search.emails) = Min(search.limit, Cardinality(MatchingInScope))
    /\ \A pos \in MatchingInScope :
         Cardinality({h \in 1..Len(search.emails) : search.emails[h] = EmailAt(pos)})
             < Cardinality({q \in MatchingInScope : EmailAt(q) = EmailAt(pos)})
           => \A h \in 1..Len(search.emails) :
                search.emails[h].dateReceived >= EmailAt(pos).dateReceived

\* the mailboxes the call looks into, each from its newest message down to
\* the perMailbox-th newest
ScannedKeys ==
  CASE search.fn = "searchMails" ->
         {key \in MailboxKeys : /\ key[1] <= Min(maxSearchAccounts, Len(Accounts))
                                /\ IsPriority(MailboxName(key))}
    [] search.fn = "searchInbox" ->
         {InboxesFrom(1)[i] : i \in DOMAIN InboxesFrom(1)}
    [] search.fn = "searchInMailbox" ->
         {FindMailbox(search.mailboxName, search.accountName)} \ {NoMbox}
    [] OTHER -> {}

PerMailbox == IF search.fn = "searchInbox" THEN inboxCheckCount ELSE messagesPerSearch

\* the claim's test of a message: the lower-cased term is a substring of the
\* lower-cased subject or sender
ContainsTerm(subject, sender) ==
  \/ StrIncludes(ToLowerCase(subject), ToLowerCase(search.searchTerm))
  \/ StrIncludes(ToLowerCase(sender), ToLowerCase(search.searchTerm))

\* C22: a search returns a message only if its lower-cased subject or sender
\* contains the lower-cased search term, and, when the call ended below the
\* limit, every message in the scanned range that does is returned.
C22_ReturnedIffContainsTerm ==
  (Searched /\ search.fn # "getLatestMails" /\ ~search.failed) =>
    /\ \A h \in 1..Len(search.emails) :
         ContainsTerm(search.emails[h].subject, search.emails[h].sender)
    /\ Len(search.emails) < search.limit =>
         \A key \in ScannedKeys : \A j \in 1..Len(mail[key]) :
           (j > Len(mail[key]) - PerMailbox
              /\ ContainsTerm(mail[key][j].subject, mail[key][j].sender))
             => \E h \in 1..Len(search.emails) : search.emails[h] = Email(mail[key][j], key)

InboxLike(key) == StrIncludes(ToUpperCase(MailboxName(key)), S_INBOX)

\* of its account the first mailbox, in enumeration order, that is inbox-like
FirstInboxLike(key) ==
  /\ InboxLike(key)
  /\ \A other \in MailboxKeys : (other[1] = key[1] /\ other[2] < key[2]) => ~InboxLike(other)

\* C23: searchInbox returns messages only from the first inbox-like mailbox of
\* each account: at most one mailbox per account, and never another mailbox.
C23_OneInboxPerAccount ==
  search.fn = "searchInbox" =>
    /\ \A h \in 1..Len(search.emails) : FirstInboxLike(search.emails[h].mailbox)
    /\ \A g, h \in 1..Len(search.emails) :
         search.emails[g].mailbox[1] = search.emails[h].mailbox[1]
           => search.emails[g].mailbox = search.emails[h].mailbox

\* A second inbox-like mailbox of an account holds a message that contains the
\* term; the call returned a message of the account's first one, ended below
\* the limit, and left that message out.
C23_Witness ==
  /\ search.fn = "searchInbox"
  /\ ~search.failed
  /\ Len(search.emails) < search.limit
  /\ \E h \in 1..Len(search.emails) : search.emails[h].mailbox = <<1, 1>>
  /\ \E j \in 1..Len(mail[<<1, 2>>]) :
       /\ ContainsTerm(mail[<<1, 2>>][j].subject, mail[<<1, 2>>][j].sender)
       /\ \A h \in 1..Len(search.emails) : search.emails[h] # Email(mail[<<1, 2>>][j], <<1, 2>>)

----------------------------------------------------------------------------
(* getMailboxHierarchy *)

S_Archive == <<"A", "r", "c", "h", "i", "v", "e">>

\* mail-accounts.ts:102, 109: the messages sampled for read status
unreadSampleSize == 100

\* One mailbox of the account as the script sees it: mb.name(), getParentName(mb)
\* (Null for none), messages.length, and the indices j (from 0) of the messages
\* whose readStatus() is false.
Entry(name, parent, messageCount, unreadAt) ==
  [name |-> name, parent |-> parent, messageCount |-> messageCount,
   unreadAt |-> unreadAt]

\* mail-accounts.ts:102-106: the unread among the first min(100, length) messages
SampledUnread(e) ==
  Cardinality({j \in e.unreadAt : j < Min(unreadSampleSize, e.messageCount)})

\* mail-accounts.ts:108-111: Math.round(unreadCount * messages.length / 100)
\* for a mailbox of more than 100 messages with an unread one in the sample;
\* Math.round takes a half upwards
UnreadCountMutFloor(messageCount, sampledUnread) ==
  IF messageCount > unreadSampleSize /\ sampledUnread > 0
  THEN (sampledUnread * messageCount) \div unreadSampleSize
  ELSE sampledUnread

UnreadCount(messageCount, sampledUnread) ==
  IF messageCount > unreadSampleSize /\ sampledUnread > 0
  THEN (2 * sampledUnread * messageCount + unreadSampleSize) \div (2 * unreadSampleSize)
  ELSE sampledUnread

\* parent + '/' + name
Path(parent, name) == IF parent # Null THEN parent \o <<"/">> \o name ELSE name

\* mail-accounts.ts:114-122
Info(e) ==
  [name |-> e.name, messageCount |-> e.messageCount,
   unreadCount |-> UnreadCount(e.messageCount, SampledUnread(e)),
   path |-> Path(e.parent, e.name), parent |-> e.parent, children |-> <<>>]

\* mail-accounts.ts:143-151
VirtualParent(parent, children) ==
  [name |-> parent, messageCount |-> 0, unreadCount |-> 0, path |-> parent,
   parent |-> Null, children |-> children]

\* Array.prototype.sort() on strings: ascending by code units
RECURSIVE InsertString(_, _)
InsertString(sorted, x) ==
  IF sorted = <<>> THEN <<x>>
  ELSE IF StrLess(x, Head(sorted)) THEN <<x>> \o sorted
       ELSE <<Head(sorted)>> \o InsertString(Tail(sorted), x)

SortStringsMutNoSort(names) == names

RECURSIVE SortStrings(_)
SortStrings(names) ==
  IF names = <<>> THEN <<>>
  ELSE InsertString(SortStrings(SubSeq(names, 1, Len(names) - 1)), names[Len(names)])

\* tree, roots, totalCount, childrenMap (with its keys in insertion order) before
\* the first mailbox
EmptyPass ==
  [tree |-> <<>>, roots |-> <<>>, total |-> 0, childrenMap |-> <<>>, parents |-> <<>>]

\* mail-accounts.ts:89-135: the pass over allMailboxes, from mailbox i on
RECURSIVE MailboxPassMutRootsAll(_, _, _)
MailboxPassMutRootsAll(st, all, i) ==
  IF i > Len(all) THEN st
  ELSE LET e == all[i]
           st1 == [st EXCEPT !.tree = (e.name :> Info(e)) @@ @,
                             !.total = @ + 1,
                             !.roots = Append(@, e.name)]
           st2 == IF e.parent = Null
                  THEN st1
                  ELSE IF e.parent \in DOMAIN st1.childrenMap
                       THEN [st1 EXCEPT !.childrenMap[e.parent] = Append(@, e.name)]
                       ELSE [st1 EXCEPT !.childrenMap = (e.parent :> <<e.name>>) @@ @,
                                        !.parents = Append(@, e.parent)]
       IN MailboxPassMutRootsAll(st2, all, i + 1)

RECURSIVE MailboxPass(_, _, _)
MailboxPass(st, all, i) ==
  IF i > Len(all) THEN st
  ELSE LET e == all[i]
           st1 == [st EXCEPT !.tree = (e.name :> Info(e)) @@ @,
                             !.total = @ + 1]
           st2 == IF e.parent = Null
                  THEN [st1 EXCEPT !.roots = Append(@, e.name)]
                  ELSE IF e.parent \in DOMAIN st1.childrenMap
                       THEN [st1 EXCEPT !.childrenMap[e.parent] = Append(@, e.name)]
                       ELSE [st1 EXCEPT !.childrenMap = (e.parent :> <<e.name>>) @@ @,
                                        !.parents = Append(@, e.parent)]
       IN MailboxPass(st2, all, i + 1)

\* mail-accounts.ts:137-154: for (const parent in childrenMap), from key i on
RECURSIVE ChildrenPassMutNoVirtual(_, _)
ChildrenPassMutNoVirtual(st, i) ==
  IF i > Len(st.parents) THEN st
  ELSE LET parent == st.parents[i]
           children == SortStrings(st.childrenMap[parent])
       IN ChildrenPassMutNoVirtual(
            IF parent \in DOMAIN st.tree
            THEN [st EXCEPT !.tree[parent].children = children]
            ELSE st,
            i + 1)

RECURSIVE ChildrenPass(_, _)
ChildrenPass(st, i) ==
  IF i > Len(st.parents) THEN st
  ELSE LET parent == st.parents[i]
           children == SortStrings(st.childrenMap[parent])
       IN ChildrenPass(
            IF parent \in DOMAIN st.tree
            THEN [st EXCEPT !.tree[parent].children = children]
            ELSE [st EXCEPT !.tree = (parent :> VirtualParent(parent, children)) @@ @,
                            !.roots = Append(@, parent)],
            i + 1)

\* getMailboxHierarchy(accountName) for an account that exists, mail-accounts.ts:85-158
getMailboxHierarchy(all) ==
  LET st == ChildrenPass(MailboxPass(EmptyPass, all, 1), 1)
  IN [done |-> TRUE, found |-> TRUE, tree |-> st.tree,
      roots |-> SortStrings(st.roots), total |-> st.total]

GetMailboxHierarchy ==
  /\ ~hierarchy.done
  /\ hierarchy' = getMailboxHierarchy(listing)
  /\ UNCHANGED <<mail, bulk, search, listing, bridgeVars, otherVars>>

\* mail-accounts.ts:70-72: no account of the name
GetMailboxHierarchyNoAccount ==
  /\ ~hierarchy.done
  /\ hierarchy' = [NoHierarchy EXCEPT !.done = TRUE]
  /\ UNCHANGED <<mail, bulk, search, listing, bridgeVars, otherVars>>

MailboxNames == {S_Archive, S_INBOX, S_Work}

Entries ==
  {Entry(name, parent, 3, {0}) : name \in MailboxNames, parent \in MailboxNames \cup {Null}}

InitHierarchy ==
  /\ InitBridge
  /\ mail = EmptyStore
  /\ bulk = [NoBulk EXCEPT !.mail0 = EmptyStore]
  /\ search = NoSearch
  /\ listing \in SeqsOf(Entries, 0, MaxMailboxes)
  /\ hierarchy = NoHierarchy
  /\ InitNoStrings

NextHierarchy ==
  \/ GetMailboxHierarchy
  \/ GetMailboxHierarchyNoAccount

SpecHierarchy == InitHierarchy /\ [][NextHierarchy]_vars

\* Mailboxes around the sample size: their lengths, and runs of unread messages
\* that lie inside the sample, beyond it, or across its end
MessageCounts == {0, 3, 100, 101, 150, 250}
UnreadRuns ==
  {{}} \cup {a..b : a \in {0, 2, 99, 100}, b \in {0, 2, 49, 99, 100, 149}}

UnreadEntries ==
  {Entry(S_INBOX, Null, n, {j \in run : j < n}) : n \in MessageCounts, run \in UnreadRuns}

InitUnread ==
  /\ InitBridge
  /\ mail = EmptyStore
  /\ bulk = [NoBulk EXCEPT !.mail0 = EmptyStore]
  /\ search = NoSearch
  /\ listing \in SeqsOf(UnreadEntries, 1, 1)
  /\ hierarchy = NoHierarchy
  /\ InitNoStrings

SpecUnread == InitUnread /\ [][NextHierarchy]_vars

----------------------------------------------------------------------------
(* Claims about getMailboxHierarchy *)

Built == hierarchy.done /\ hierarchy.found

Enumerated(name) == \E i \in 1..Len(listing) : listing[i].name = name

IsVirtual(node) ==
  node.messageCount = 0 /\ node.unreadCount = 0 /\ node.parent = Null

\* C10: every name that is the parent of some mailbox of the listing has a node
\* in the tree, the enumerated mailbox of that name or a virtual node with zero
\* counts and no parent.
C10_NoDanglingParent ==
  Built =>
    \A i \in 1..Len(listing) :
      listing[i].parent # Null =>
        /\ listing[i].parent \in DOMAIN hierarchy.tree
        /\ hierarchy.tree[listing[i].parent].name = listing[i].parent
        /\ \/ Enumerated(listing[i].parent)
           \/ IsVirtual(hierarchy.tree[listing[i].parent])

\* A mailbox whose parent is not in the listing: the parent's node is virtual
\* and holds the mailbox as a child.
C10_Witness ==
  /\ Built
  /\ \E i \in 1..Len(listing) :
       /\ listing[i].parent # Null
       /\ ~Enumerated(listing[i].parent)
       /\ listing[i].parent \in DOMAIN hierarchy.tree
       /\ IsVirtual(hierarchy.tree[listing[i].parent])
       /\ Includes(hierarchy.tree[listing[i].parent].children, listing[i].name)
       /\ Includes(hierarchy.roots, listing[i].parent)

\* s is in ascending order of code units (equal neighbours allowed)
SortedStrings(s) == \A i \in 1..(Len(s) - 1) : ~StrLess(s[i + 1], s[i])

\* C11: in every hierarchy returned, roots is lexicographically sorted and so
\* is the children array of every node, real or virtual.
C11_RootsAndChildrenSorted ==
  Built =>
    /\ SortedStrings(hierarchy.roots)
    /\ \A n \in DOMAIN hierarchy.tree : SortedStrings(hierarchy.tree[n].children)

\* Two children of one node enumerated in descending order and returned in
\* ascending order, beside two different roots in ascending order.
C11_Witness ==
  /\ Built
  /\ \E g, h \in 1..Len(listing) :
       /\ g < h
       /\ listing[g].parent # Null /\ listing[g].parent = listing[h].parent
       /\ StrLess(listing[h].name, listing[g].name)
       /\ hierarchy.tree[listing[g].parent].children = <<listing[h].name, listing[g].name>>
  /\ Len(hierarchy.roots) >= 2
  /\ StrLess(hierarchy.roots[1], hierarchy.roots[2])

\* the entries of all the children arrays of the tree
RECURSIVE SumChildren(_, _)
SumChildren(tree, names) ==
  IF names = {} THEN 0
  ELSE LET n == CHOOSE x \in names : TRUE
       IN Len(tree[n].children) + SumChildren(tree, names \ {n})

ChildrenEntries == SumChildren(hierarchy.tree, DOMAIN hierarchy.tree)

\* C12: in every hierarchy returned, the number of entries of roots plus the
\* number of entries of all children arrays equals total, virtual parents
\* included.
C12_RootsPlusChildrenIsTotal ==
  Built => Len(hierarchy.roots) + ChildrenEntries = hierarchy.total

\* how many entries of the listing have this name and this parent
CountListed(name, parent) ==
  Cardinality({i \in 1..Len(listing) : listing[i].name = name /\ listing[i].parent = parent})

CountIn(s, x) == Cardinality({i \in 1..Len(s) : s[i] = x})

\* name is the parent of a mailbox of the listing and no mailbox of the listing
IsVirtualParent(name) ==
  /\ \E i \in 1..Len(listing) : listing[i].parent = name
  /\ ~Enumerated(name)

\* C13: roots is exactly the sorted list of the names without parent together
\* with the synthesized virtual parents, the children of a node p are exactly
\* the sorted names whose parent is p, and total is the number of enumerated
\* mailboxes.
C13_ForestFromListing ==
  Built =>
    /\ SortedStrings(hierarchy.roots)
    /\ \A n \in MailboxNames :
         CountIn(hierarchy.roots, n)
           = CountListed(n, Null) + (IF IsVirtualParent(n) THEN 1 ELSE 0)
    /\ \A i \in 1..Len(hierarchy.roots) : hierarchy.roots[i] \in MailboxNames
    /\ \A p \in DOMAIN hierarchy.tree :
         /\ SortedStrings(hierarchy.tree[p].children)
         /\ \A n \in MailboxNames :
              CountIn(hierarchy.tree[p].children, n) = CountListed(n, p)
         /\ \A i \in 1..Len(hierarchy.tree[p].children) :
              hierarchy.tree[p].children[i] \in MailboxNames
    /\ hierarchy.total = Len(listing)

\* The listing INBOX (no parent), Work (parent INBOX), Archive (no parent) gives
\* roots [Archive, INBOX], INBOX.children = [Work] and total = 3.
C13_Witness ==
  /\ Built
  /\ Len(listing) = 3
  /\ listing[1].name = S_INBOX /\ listing[1].parent = Null
  /\ listing[2].name = S_Work /\ listing[2].parent = S_INBOX
  /\ listing[3].name = S_Archive /\ listing[3].parent = Null
  /\ hierarchy.roots = <<S_Archive, S_INBOX>>
  /\ hierarchy.tree[S_INBOX].children = <<S_Work>>
  /\ hierarchy.total = 3

----------------------------------------------------------------------------
(* Claims about getLatestMails *)

\* C29: in the hierarchy returned, c is among the children of p exactly when
\* the node of c has parent p, a name is in roots exactly when its node has no
\* parent, and roots holds no name twice; for every listing, also one where a
\* mailbox name occurs under different parents.
C29_ParentAndChildrenAgree ==
  Built =>
    /\ \A p \in DOMAIN hierarchy.tree : \A c \in DOMAIN hierarchy.tree :
         Includes(hierarchy.tree[p].children, c) <=> hierarchy.tree[c].parent = p
    /\ \A name \in DOMAIN hierarchy.tree :
         Includes(hierarchy.roots, name) <=> hierarchy.tree[name].parent = Null
    /\ \A g, h \in 1..Len(hierarchy.roots) :
         g # h => hierarchy.roots[g] # hierarchy.roots[h]

LatestDone == search.fn = "getLatestMails"

\* what the call collected from the mailboxes it scanned
Collected == allMessages(mail, search.accountName)

NewestFirst(emails) ==
  \A g, h \in 1..Len(emails) : g < h => emails[g].dateReceived >= emails[h].dateReceived

\* C17: getLatestMails returns at most limit messages, newest first, and they
\* are the limit newest of all the messages it collected: as many as the limit
\* allows, each of them collected, and none older than a collected message
\* that was left out.
C17_LatestNewestOfCollected ==
  LatestDone =>
    LET collected == Collected
        emails == search.emails
    IN /\ Len(emails) <= search.limit
       /\ NewestFirst(emails)
       /\ Len(emails) = Min(search.limit, Len(collected))
       /\ \A g \in 1..Len(emails) :
            CountIn(emails, emails[g]) <= CountIn(collected, emails[g])
       /\ \A g \in 1..Len(collected) :
            CountIn(emails, collected[g]) < CountIn(collected, collected[g])
              => \A h \in 1..Len(emails) :
                   emails[h].dateReceived >= collected[g].dateReceived

\* More messages were collected than the limit allows, from two mailboxes, the
\* newest of them not among the first limit collected; it is returned first.
C17_Witness ==
  /\ LatestDone
  /\ LET collected == Collected
     IN /\ Len(collected) > search.limit
        /\ Len(search.emails) = search.limit
        /\ \E g, h \in 1..Len(collected) : collected[g].mailbox # collected[h].mailbox
        /\ \A g \in 1..search.limit :
             collected[g].dateReceived < search.emails[1].dateReceived

====
